---- MODULE Spec2Model ----
(***************************************************************************)
(* Model of the IPsec rollout and verification tests of                    *)
(* test/extended/networking (the Go source carried in                      *)
(* src/test/extended/testdata/gssapi/proxy/gssapiproxy-deploymentconfig    *)
(* .yaml, lines 68-614).                                                   *)
(*                                                                         *)
(* The module holds four state machines over one set of variables:         *)
(*   SpecStore  configureIPsecMode run by two concurrent callers           *)
(*   SpecTrial  pingAndCheckNodeTraffic and its three goroutines           *)
(*   SpecPoll   the three ensureIPsec... convergence polls                 *)
(*   Spec       a Ginkgo scenario: body, verification, AfterEach           *)
(***************************************************************************)
EXTENDS Naturals, Sequences, FiniteSets, TLC

VARIABLES
    network,    \* the stored Network "cluster" object: [cfg]
    call,       \* per caller: the configureIPsecMode call it is running
    trial,      \* one pingAndCheckNodeTraffic invocation
    poll,       \* one ensureIPsec... invocation
    verify,     \* one checkForGeneveOnlyTraffic / checkForESPOnlyTraffic invocation
    scn,        \* the Ginkgo scenario (BeforeEach, body, AfterEach)
    mirror      \* one mirrorToFile invocation of openshift-tests

vars == <<network, call, trial, poll, verify, scn, mirror>>

----------------------------------------------------------------------------
(* Bounds of the model                                                     *)

\* writes fn makes to opt.Out / opt.ErrOut during one mirrorToFile call.
MaxLines == 3

\* calls the caller "test" of SpecStore makes, one after the other (the
\* caller "other" makes one call).
MaxCalls == 2
\* nodes that run (or should run) an ovn-ipsec-host pod.
MaxNodes == 2

----------------------------------------------------------------------------
(* ModeStore: configureIPsecMode / getIPsecMode                            *)

IPsecModes == {"Disabled", "External", "Full"}
\* OVNKubernetesConfig.IPsecConfig == nil
NilConfig == "nil"
\* IPsecConfig present, IPsecConfig.Mode == ""
EmptyMode == ""
ConfigShapes == IPsecModes \cup {NilConfig, EmptyMode}

Callers == {"test", "other"}

\* retry.DefaultRetry.Steps: the number of times RetryOnConflict runs fn.
RetrySteps == 5

NoCall == [desired |-> "none", writes |-> 0, result |-> "none",
           startCfg |-> "none", foreign |-> FALSE]

IdleCall ==
    [pc |-> "idle", desired |-> "none", attempts |-> 0,
     network |-> [cfg |-> NilConfig, fresh |-> FALSE],
     fnErr |-> "nil", errFrom |-> "none", sawEqual |-> FALSE,
     writes |-> 0, wroteDesired |-> FALSE, result |-> "none",
     n |-> 0, startCfg |-> "none", foreign |-> FALSE, prev |-> NoCall]

\* The entry of configureIPsecMode(oc, m): RetryOnConflict is about to run fn
\* for the first time. The finished call, if any, is kept in prev.
BeginCall(c, m, net) ==
    [IdleCall EXCEPT
        !.pc = "get", !.desired = m, !.n = c.n + 1, !.startCfg = net.cfg,
        !.prev = IF c.n = 0 THEN NoCall
                 ELSE [desired |-> c.desired, writes |-> c.writes,
                       result |-> c.result, startCfg |-> c.startCfg,
                       foreign |-> c.foreign]]

\* Mutant of NeedsUpdate: the stored record is compared as getIPsecMode reads
\* it, a missing IPsecConfig as Disabled and an empty mode as Full.
NeedsUpdateByReading(cfg, desired) ==
    (IF cfg = "nil" THEN "Disabled" ELSE IF cfg = "" THEN "Full" ELSE cfg) # desired

\* Mutant of NeedsUpdate: the no-op branch is gone, every call writes.
NeedsUpdateAlways(cfg, desired) == TRUE

\* Mutant of NeedsUpdate: the comparison is inverted, so a record that differs
\* from the desired mode takes the "no changes" branch.
NeedsUpdateInverted(cfg, desired) == cfg = NilConfig \/ cfg = desired

\* The three-way branch of fn: a nil IPsecConfig or a different Mode is
\* changed and written, an equal Mode returns nil without updating.
NeedsUpdate(cfg, desired) == cfg = NilConfig \/ cfg # desired

\* Mutant of MutateInPlace: the local copy is written back unchanged.
MutateNothing(obj, desired) == obj

\* IPsecConfig = &v1.IPsecConfig{Mode: ipsecMode}  /  IPsecConfig.Mode = ipsecMode
MutateInPlace(obj, desired) == [obj EXCEPT !.cfg = desired]

\* Networks().Update: the API server accepts the write only when the object
\* still has the resourceVersion that was read. A local copy is fresh from
\* its Get until the next accepted write of any client.
UpdateAccepted(obj) == obj.fresh

\* fn up to the Update call: Get, then compare and mutate the local copy.
\* apiErr is the answer of the Get call.
configureGet(c, net, apiErr) ==
    IF apiErr # "nil"
    THEN [c EXCEPT !.pc = "ret", !.fnErr = apiErr, !.errFrom = "get"]
    ELSE LET seen == [c EXCEPT !.sawEqual = @ \/ (net.cfg = c.desired)] IN
         IF NeedsUpdate(net.cfg, c.desired)
         THEN [seen EXCEPT !.pc = "update",
                           !.network = MutateInPlace([cfg |-> net.cfg, fresh |-> TRUE],
                                                     c.desired)]
         ELSE [seen EXCEPT !.pc = "ret", !.fnErr = "nil", !.errFrom = "none"]

\* fn's Update call and return: what fn returns and whether the write landed.
configureUpdate(c, net, apiErr) ==
    IF apiErr # "nil"
    THEN [c EXCEPT !.pc = "ret", !.fnErr = apiErr, !.errFrom = "update"]
    ELSE IF UpdateAccepted(c.network)
    THEN [c EXCEPT !.pc = "ret", !.fnErr = "nil", !.errFrom = "none",
                   !.writes = @ + 1,
                   !.wroteDesired = @ \/ (c.network.cfg = c.desired)]
    ELSE [c EXCEPT !.pc = "ret", !.fnErr = "Conflict", !.errFrom = "update"]

\* Mutant of RetryOnConflict: every error of fn is retried.
RetryOnAnyError(c) ==
    IF c.pc # "ret" THEN c
    ELSE IF c.fnErr = "nil"
    THEN [c EXCEPT !.pc = "done", !.attempts = @ + 1, !.result = "nil"]
    ELSE IF c.attempts + 1 < RetrySteps
    THEN [c EXCEPT !.pc = "get", !.attempts = @ + 1]
    ELSE [c EXCEPT !.pc = "done", !.attempts = @ + 1, !.result = c.fnErr]

\* retry.RetryOnConflict(retry.DefaultRetry, fn): fn has returned (pc = "ret");
\* nil ends the call, a conflict runs fn again while steps remain, any other
\* error (and the conflict of the last step) is returned.
RetryOnConflict(c) ==
    IF c.pc # "ret" THEN c
    ELSE IF c.fnErr = "nil"
    THEN [c EXCEPT !.pc = "done", !.attempts = @ + 1, !.result = "nil",
                   !.network = IdleCall.network]
    ELSE IF c.fnErr = "Conflict" /\ c.attempts + 1 < RetrySteps
    THEN [c EXCEPT !.pc = "get", !.attempts = @ + 1]
    ELSE [c EXCEPT !.pc = "done", !.attempts = @ + 1, !.result = c.fnErr,
                   !.network = IdleCall.network]

\* Mutant of getIPsecMode: a present IPsecConfig with an empty mode is read
\* like a missing one.
getIPsecModeNoLegacyDefault(cfg, apiErr) ==
    IF apiErr # "nil" THEN [mode |-> "Disabled", err |-> apiErr]
    ELSE [mode |-> IF cfg \in {NilConfig, EmptyMode} THEN "Disabled" ELSE cfg,
          err |-> "nil"]

\* getIPsecMode while the stored record is cfg and Networks().Get answers
\* apiErr: (Disabled, err) on an error, else the reading of the record.
getIPsecMode(cfg, apiErr) ==
    IF apiErr # "nil" THEN [mode |-> "Disabled", err |-> apiErr]
    ELSE [mode |-> IF cfg = NilConfig THEN "Disabled"
                   ELSE IF cfg # EmptyMode THEN cfg
                   ELSE "Full",
          err |-> "nil"]

\* An accepted write moves the resourceVersion: every local copy is stale,
\* and every caller but the writer w has seen a foreign write.
MarkWritten(cs, w) ==
    [v \in Callers |->
        [cs[v] EXCEPT !.network.fresh = FALSE,
                      !.foreign = IF v = w THEN @ ELSE @ \/ cs[v].pc # "idle"]]

\* One run of fn's Get by caller w (with the retry decision when fn returns).
GetStep(w) ==
    /\ call[w].pc = "get"
    /\ \E apiErr \in {"nil", "Other"} :
          call' = [call EXCEPT ![w] = RetryOnConflict(configureGet(call[w], network, apiErr))]
    /\ UNCHANGED <<network, trial, poll, verify, scn, mirror>>

\* fn's Update by caller w (with the retry decision).
UpdateStep(w) ==
    /\ call[w].pc = "update"
    /\ \E apiErr \in {"nil", "Other"} :
          LET c == configureUpdate(call[w], network, apiErr) IN
          IF c.fnErr = "nil"
          THEN /\ network' = [cfg |-> call[w].network.cfg]
               /\ call' = MarkWritten([call EXCEPT ![w] = RetryOnConflict(c)], w)
          ELSE /\ network' = network
               /\ call' = [call EXCEPT ![w] = RetryOnConflict(c)]
    /\ UNCHANGED <<trial, poll, verify, scn, mirror>>

\* Another client (the network operator writing status) updates the object:
\* the resourceVersion moves, the IPsec mode does not.
ExternalTouch ==
    /\ call' = MarkWritten(call, "operator")
    /\ call' # call
    /\ UNCHANGED <<network, trial, poll, verify, scn, mirror>>

\* A caller of SpecStore starts its next configureIPsecMode call.
StartCall(w) ==
    /\ call[w].pc \in {"idle", "done"}
    /\ call[w].n < (IF w = "test" THEN MaxCalls ELSE 1)
    /\ \E m \in IPsecModes : call' = [call EXCEPT ![w] = BeginCall(call[w], m, network)]
    /\ UNCHANGED <<network, trial, poll, verify, scn, mirror>>

----------------------------------------------------------------------------
(* Placeholders of the other machines' idle states                         *)

IdleTrial ==
    [pc |-> "idle", ipsecTraffic |-> FALSE, wire |-> "geneve",
     task |-> [src |-> "unlaunched", dst |-> "unlaunched", ping |-> "unlaunched"],
     execd |-> {}, sent |-> 0, replied |-> FALSE,
     dumpErr |-> "nil", pingErr |-> "nil", result |-> "none",
     failOrder |-> <<>>, named |-> {}, lost |-> FALSE, execErr |-> {},
     acc |-> {}]
NoIteration ==
    [stage |-> "none", structErr |-> "nil", askedOperators |-> FALSE,
     operatorsErr |-> "nil", out |-> "none",
     structRet |-> [done |-> FALSE, err |-> "nil"], operatorsDone |-> FALSE]

IdlePoll ==
    [pc |-> "idle", fn |-> "none", stage |-> "none", elapsed |-> 0,
     result |-> "none", last |-> NoIteration,
     mode |-> "none", ran |-> {}, poolsTrue |-> FALSE]
\* setupTestPods, goroutine by goroutine: where the function is, what each
\* goroutine of createSync has done, the group's error and the accesses the
\* goroutines have made to the fields of config.
IdleSetup ==
    [pc |-> "idle", task |-> [src |-> "unlaunched", dst |-> "unlaunched"],
     err |-> "nil", acc |-> {}]
IdleVerify ==
    [pc |-> "idle", kind |-> "none", wire |-> "geneve", err |-> "nil",
     created |-> FALSE, pods |-> {}, outcome |-> "none", failedAt |-> "none",
     cleanupErr |-> FALSE, mode |-> "none", trials |-> <<>>,
     setup |-> IdleSetup]

\* The getIPsecMode call BeforeAll has just made: what it read and what it
\* returned (kept until BeforeEach starts).
NoRead == [cfg |-> "none", apiErr |-> "nil", mode |-> "none", err |-> "nil"]
\* The last iteration of waitForIPsecNSConfigApplied: whether each policy
\* was fetched and whether its rendering carried the marker.
NoPolicyPoll == [gotLeft |-> FALSE, left |-> FALSE, gotRight |-> FALSE, right |-> FALSE]
NoRestore == [called |-> FALSE, desired |-> "none", result |-> "none"]
NoWait == [fn |-> "none", result |-> "none"]

IdleScn ==
    [phase |-> "off", test |-> "none", i |-> 1, sub |-> "enter",
     ipsecMode |-> "none", deleteOnFailure |-> TRUE,
     failedAt |-> "none", failedWith |-> "none", teardownFailedAt |-> "none",
     restore |-> NoRestore, restoreWait |-> NoWait, read |-> NoRead,
     log |-> <<>>, ns |-> NoPolicyPoll]

----------------------------------------------------------------------------
(* TrafficOracle: pingAndCheckNodeTraffic                                  *)

Captures == {"src", "dst"}
Tasks == {"src", "dst", "ping"}
Finished == {"ok", "err"}

\* ping -c 3
PingCount == 3

\* tcpdumpESPFilter when ipsecTraffic, else tcpdumpGeneveFilter.
TrafficFilter(ipsecTraffic) == IF ipsecTraffic THEN "esp" ELSE "geneve"

\* Mutant of FirstError: the error of the goroutine that failed last is kept.
LastError(groupErr, taskErr) == taskErr

\* errgroup.Group: the first non-nil error returned by a goroutine is kept.
FirstError(groupErr, taskErr) == IF groupErr = "nil" THEN taskErr ELSE groupErr

\* Mutant of SidesNamed: the message of the returned error leaves out the
\* error of the capture group.
SidesNamedNone(err) == {}

\* The capture sides the returned error names: the message embeds, with %v,
\* the one error tcpDumpSync.Wait() returned, which is either "error
\* capturing traffic on the source node: ..." or "error capturing traffic on
\* the dst node: ...".
SidesNamed(err) == IF err = "nil" THEN {} ELSE {err}

\* Mutant of WaitReturns: Wait returns as soon as one goroutine has failed.
WaitReturnsOnFirstError(t, group) ==
    \/ \A k \in group : t.task[k] \in Finished
    \/ \E k \in group : t.task[k] = "err"

\* errgroup.Group.Wait: blocks until every goroutine started with Go has
\* returned.
WaitReturns(t, group) == \A k \in group : t.task[k] \in Finished

\* Mutant of TrialResult: an error is reported only when both the capture
\* group and the ping failed.
TrialResultBothFailed(err, pingErr) ==
    IF err # "nil" /\ pingErr # "nil" THEN "err" ELSE "nil"

\* if err != nil || pingErr != nil { return fmt.Errorf(...) }; return nil
TrialResult(err, pingErr) ==
    IF err # "nil" \/ pingErr # "nil" THEN "err" ELSE "nil"

\* An access of goroutine task to the field of config.<side>NodeConfig.
Access(task, side, field, kind) ==
    [task |-> task, side |-> side, field |-> field, kind |-> kind]

\* checkSrcNodeTraffic / checkDstNodeTraffic read their own node's tcpdump
\* pod (name, namespace) and host interface.
CaptureAccesses(k) ==
    {Access(k, k, "tcpdumpPod", "read"), Access(k, k, "hostInf", "read")}

\* pingTestFromPod reads the source's ping pod (name, namespace) and the
\* destination's ping pod (its IP).
PingAccesses ==
    {Access("ping", "src", "pingPod", "read"), Access("ping", "dst", "pingPod", "read")}

\* The three Go calls, in program order: the goroutine of task k exists.
Launch(k, from, to) ==
    /\ trial.pc = from
    /\ trial' = [trial EXCEPT !.pc = to, !.task[k] = "launched"]
    /\ UNCHANGED <<network, call, poll, verify, scn, mirror>>

GoSrcCapture == Launch("src", "go1", "go2")
GoDstCapture == Launch("dst", "go2", "go3")
GoPing == Launch("ping", "go3", "waitPing")

\* checkSrcNodeTraffic / checkDstNodeTraffic: oc exec starts tcpdump, which
\* listens from now on, or the exec itself fails.
CaptureStart(k) ==
    /\ trial.task[k] = "launched"
    /\ \/ trial' = [trial EXCEPT !.task[k] = "capturing", !.execd = @ \cup {k},
                                 !.acc = @ \cup CaptureAccesses(k)]
       \/ trial' = [trial EXCEPT !.task[k] = "err", !.execd = @ \cup {k},
                                 !.dumpErr = FirstError(@, k),
                                 !.failOrder = Append(@, k),
                                 !.execErr = @ \cup {k},
                                 !.acc = @ \cup CaptureAccesses(k)]
    /\ UNCHANGED <<network, call, poll, verify, scn, mirror>>

\* timeout 10 ends a tcpdump that has matched nothing: the exec returns an
\* error and the goroutine returns it to tcpDumpSync.
CaptureTimeout(k) ==
    /\ trial.task[k] = "capturing"
    /\ trial' = [trial EXCEPT !.task[k] = "err", !.dumpErr = FirstError(@, k),
                              !.failOrder = Append(@, k)]
    /\ UNCHANGED <<network, call, poll, verify, scn, mirror>>

\* tcpdump -c 1 has its packet: the exec returns nil and so does the goroutine.
CaptureReturn(k) ==
    /\ trial.task[k] = "matched"
    /\ trial' = [trial EXCEPT !.task[k] = "ok"]
    /\ UNCHANGED <<network, call, poll, verify, scn, mirror>>

\* pingTestFromPod: oc exec starts ping, or the exec itself fails.
PingStart ==
    /\ trial.task.ping = "launched"
    /\ \/ trial' = [trial EXCEPT !.task.ping = "running", !.execd = @ \cup {"ping"},
                                 !.acc = @ \cup PingAccesses]
       \/ trial' = [trial EXCEPT !.task.ping = "err", !.execd = @ \cup {"ping"},
                                 !.pingErr = "err", !.execErr = @ \cup {"ping"},
                                 !.acc = @ \cup PingAccesses]
    /\ UNCHANGED <<network, call, poll, verify, scn, mirror>>

\* A capture that is listening takes a packet leaving its node when the
\* packet carries the signature of the capture's filter.
Sees(t, k, passes) ==
    IF t.task[k] = "capturing" /\ passes /\ t.wire = TrafficFilter(t.ipsecTraffic)
    THEN "matched" ELSE t.task[k]

\* One echo request of the burst leaves the source node; when it is
\* delivered the reply leaves the destination node.
PingPacket ==
    /\ trial.task.ping = "running"
    /\ trial.sent < PingCount
    /\ \E delivered \in BOOLEAN :
          trial' = [trial EXCEPT
                       !.sent = @ + 1,
                       !.replied = @ \/ delivered,
                       !.lost = @ \/ ~delivered,
                       !.task.src = Sees(trial, "src", TRUE),
                       !.task.dst = Sees(trial, "dst", delivered)]
    /\ UNCHANGED <<network, call, poll, verify, scn, mirror>>

\* ping exits after its last packet: status 0 when a reply came back.
PingExit ==
    /\ trial.task.ping = "running"
    /\ trial.sent = PingCount
    /\ trial' = [trial EXCEPT
                    !.task.ping = IF trial.replied THEN "ok" ELSE "err",
                    !.pingErr = IF trial.replied THEN "nil" ELSE "err"]
    /\ UNCHANGED <<network, call, poll, verify, scn, mirror>>

\* pingErr := pingSync.Wait()
WaitPing ==
    /\ trial.pc = "waitPing"
    /\ WaitReturns(trial, {"ping"})
    /\ trial' = [trial EXCEPT !.pc = "waitDump"]
    /\ UNCHANGED <<network, call, poll, verify, scn, mirror>>

\* err := tcpDumpSync.Wait(), then the check of both errors and the return.
WaitDumpAndReturn ==
    /\ trial.pc = "waitDump"
    /\ WaitReturns(trial, Captures)
    /\ trial' = [trial EXCEPT
                    !.pc = "returned",
                    !.result = TrialResult(trial.dumpErr, trial.pingErr),
                    !.named = IF TrialResult(trial.dumpErr, trial.pingErr) = "nil"
                              THEN {} ELSE SidesNamed(trial.dumpErr)]
    /\ UNCHANGED <<network, call, poll, verify, scn, mirror>>

\* The entry of pingAndCheckNodeTraffic(src, dst, ipsecTraffic) while the
\* traffic between the two nodes carries the signature wire.
BeginTrial(ipsecTraffic, wire) ==
    [IdleTrial EXCEPT !.pc = "go1", !.ipsecTraffic = ipsecTraffic, !.wire = wire]

TrialStep ==
    \/ GoSrcCapture
    \/ GoDstCapture
    \/ GoPing
    \/ \E k \in Captures : CaptureStart(k)
    \/ \E k \in Captures : CaptureTimeout(k)
    \/ \E k \in Captures : CaptureReturn(k)
    \/ PingStart
    \/ PingPacket
    \/ PingExit
    \/ WaitPing
    \/ WaitDumpAndReturn

\* SpecTrial calls pingAndCheckNodeTraffic with either filter, on either wire.
StartTrial ==
    /\ trial.pc = "idle"
    /\ \E ipsecTraffic \in BOOLEAN, wire \in {"esp", "geneve"} :
          trial' = BeginTrial(ipsecTraffic, wire)
    /\ UNCHANGED <<network, call, poll, verify, scn, mirror>>

\* One mirrorToFile(opt, fn) invocation: where it is, the Out and ErrOut of
\* opt, whether the file is open, what has reached the terminal streams and
\* the file, whether fn was invoked and what it returned, whether Close was
\* called and failed, and the value returned.
IdleMirror ==
    [pc |-> "idle", out |-> "nil", errOut |-> "nil", outFile |-> FALSE,
     open |-> FALSE, openErr |-> FALSE, term |-> <<>>, file |-> <<>>,
     invoked |-> FALSE, exitErr |-> "none", closed |-> FALSE, closeErr |-> FALSE,
     result |-> "none"]

InitTrial ==
    /\ network = [cfg |-> NilConfig]
    /\ call = [w \in Callers |-> IdleCall]
    /\ trial = IdleTrial
    /\ poll = IdlePoll
    /\ verify = IdleVerify
    /\ scn = IdleScn
    /\ mirror = IdleMirror

NextTrial == StartTrial \/ TrialStep

SpecTrial == InitTrial /\ [][NextTrial]_vars

----------------------------------------------------------------------------
(* Claims on pingAndCheckNodeTraffic, checked under SpecTrial              *)

\* C1: pingAndCheckNodeTraffic returns nil if and only if the ping, the
\* source-node capture and the destination-node capture all succeeded; one
\* failure among the three makes it return an error.
C1_NilIffAllThreeSucceeded ==
    trial.pc = "returned" =>
        (trial.result = "nil" <=> \A k \in Tasks : trial.task[k] = "ok")

\* C1 witness: a trial returned an error with the ping and one capture
\* successful and only the other capture failed.
C1_Witness ==
    /\ trial.pc = "returned" /\ trial.result = "err"
    /\ trial.task.ping = "ok" /\ trial.task.src = "ok" /\ trial.task.dst = "err"

\* C2: pingAndCheckNodeTraffic returns only after the source capture, the
\* destination capture and the ping have all run their command and finished;
\* the failure of one task leaves its siblings running to their own end.
C2_ReturnsAfterAllTasks ==
    /\ trial.pc = "returned" =>
          /\ \A k \in Tasks : trial.task[k] \in Finished
          /\ trial.execd = Tasks
    /\ \A k \in Tasks : trial.task[k] \in Finished => k \in trial.execd

\* C2 witness: the trial returned after the source capture had failed, with
\* the destination capture and the ping completed successfully.
C2_Witness ==
    /\ trial.pc = "returned"
    /\ trial.task.src = "err" /\ trial.task.dst = "ok" /\ trial.task.ping = "ok"
    /\ trial.execd = Tasks

\* The capture sides whose goroutine returned an error.
FailedSides == {k \in Captures : trial.task[k] = "err"}

\* C19: when exactly one capture side fails in a trial, the error returned by
\* pingAndCheckNodeTraffic names that side (source node or dst node) and does
\* not name the other side, whatever the ping did.
C19_ErrorNamesTheFailedSide ==
    trial.pc = "returned" /\ Cardinality(FailedSides) = 1 =>
        trial.result = "err" /\ trial.named = FailedSides

\* C19 witness: a trial returned an error naming the dst node after the
\* destination capture alone failed, the ping having failed as well.
C19_Witness ==
    /\ trial.pc = "returned" /\ trial.result = "err"
    /\ FailedSides = {"dst"} /\ trial.named = {"dst"}
    /\ trial.task.ping = "err"

\* The whole burst went out and came back carrying the signature the trial
\* filters on, and every oc exec of the trial started its command.
BurstAsExpected ==
    /\ trial.wire = TrafficFilter(trial.ipsecTraffic)
    /\ trial.sent = PingCount /\ ~trial.lost
    /\ trial.execErr = {}

\* C28: when every packet of the generated burst carries the expected
\* signature on both nodes, pingAndCheckNodeTraffic returns nil in every
\* interleaving of the three tasks, also when a capture starts capturing only
\* after the ping has sent its last packet.
C28_SuccessInEveryInterleaving ==
    trial.pc = "returned" /\ BurstAsExpected => trial.result = "nil"

\* C20 as stated: when both the source capture and the destination capture
\* fail in the same trial, the returned error reports both failures, naming
\* the source side and the destination side, in every interleaving.
C20_Original ==
    trial.pc = "returned" /\ FailedSides = Captures =>
        trial.result = "err" /\ trial.named = Captures

\* C20 as amended: when both captures fail in the same trial, the returned
\* error names exactly one side, the one whose goroutine returned its error
\* first; the failure of the other side is not reported.
C20_ErrorNamesFirstFailedSide ==
    trial.pc = "returned" /\ FailedSides = Captures =>
        /\ trial.result = "err"
        /\ Len(trial.failOrder) = 2
        /\ trial.named = {trial.failOrder[1]}

\* C20 witness: both captures failed, the destination capture first, and the
\* returned error names the dst node only.
C20_Witness ==
    /\ trial.pc = "returned" /\ FailedSides = Captures
    /\ trial.failOrder = <<"dst", "src">> /\ trial.named = {"dst"}

----------------------------------------------------------------------------
(* FleetConvergenceChecker: ensureIPsecEnabled,                            *)
(* ensureIPsecMachineConfigRolloutComplete, ensureIPsecDisabled            *)

\* ipsecRolloutWaitDuration and ipsecRolloutWaitInterval, in minutes.
ipsecRolloutWaitDuration == 20
ipsecRolloutWaitInterval == 1

\* *appsv1.DaemonSet == nil
NilDS == [desired |-> 0, ready |-> 0, nil |-> TRUE]
\* &appsv1.DaemonSet{}: the empty object a failed Get leaves in its result.
ZeroDS == [desired |-> 0, ready |-> 0, nil |-> FALSE]
DaemonSets ==
    {[desired |-> d, ready |-> r, nil |-> FALSE] : d \in 0..MaxNodes, r \in 0..MaxNodes}

\* What DaemonSets(ns).Get can answer: the object, or an error together with
\* a nil or an empty result.
LookupAnswers ==
    {[ds |-> d, err |-> "nil"] : d \in {x \in DaemonSets : x.ready <= x.desired}}
    \cup {[ds |-> d, err |-> e] : d \in {NilDS, ZeroDS},
                                  e \in {"NotFound", "ConnReset", "Other"}}

\* What areMachineConfigPoolsReadyWithIPsec and areClusterOperatorsReady can
\* answer: a verdict, or false with an error.
HelperAnswers ==
    {[done |-> TRUE, err |-> "nil"], [done |-> FALSE, err |-> "nil"],
     [done |-> FALSE, err |-> "ConnReset"], [done |-> FALSE, err |-> "Other"]}

isConnResetErr(err) == err = "ConnReset"

\* Mutant of getIPsecDaemonSet: not-found is passed on like any other error.
getIPsecDaemonSetPassesNotFound(answer) == answer

\* getIPsecDaemonSet: not-found is (nil, nil), anything else is passed on.
getIPsecDaemonSet(answer) ==
    IF answer.err # "nil" /\ answer.err = "NotFound"
    THEN [ds |-> NilDS, err |-> "nil"]
    ELSE answer

\* isIPsecDaemonSetRunning: a nil daemon set returns (false, err); otherwise
\* desired == ready is returned with a nil error.
isIPsecDaemonSetRunning(answer) ==
    LET r == getIPsecDaemonSet(answer) IN
    IF r.ds = NilDS THEN [done |-> FALSE, err |-> r.err]
    ELSE [done |-> r.ds.desired = r.ds.ready, err |-> "nil"]

\* Mutant of ThenOperators: the operators are asked in every iteration.
ThenOperatorsAlways(done, operators) ==
    IF operators.err # "nil" /\ ~isConnResetErr(operators.err)
    THEN [done |-> FALSE, err |-> operators.err, asked |-> TRUE]
    ELSE [done |-> done /\ operators.done, err |-> "nil", asked |-> TRUE]

\* The tail shared by the three condition functions: operators are asked only
\* when the structural check said done.
ThenOperators(done, operators) ==
    IF done
    THEN IF operators.err # "nil" /\ ~isConnResetErr(operators.err)
         THEN [done |-> FALSE, err |-> operators.err, asked |-> TRUE]
         ELSE [done |-> operators.done, err |-> "nil", asked |-> TRUE]
    ELSE [done |-> done, err |-> "nil", asked |-> FALSE]

\* The condition function of ensureIPsecEnabled's own poll.
conditionEnabled(lookup, operators) ==
    LET r == isIPsecDaemonSetRunning(lookup) IN
    IF r.err # "nil" /\ ~isConnResetErr(r.err)
    THEN [done |-> FALSE, err |-> r.err, asked |-> FALSE]
    ELSE ThenOperators(r.done, operators)

\* The condition function of ensureIPsecMachineConfigRolloutComplete.
conditionMachineConfig(pools, operators) ==
    IF pools.err # "nil" /\ ~isConnResetErr(pools.err)
    THEN [done |-> FALSE, err |-> pools.err, asked |-> FALSE]
    ELSE ThenOperators(pools.done, operators)

\* The condition function of ensureIPsecDisabled.
conditionDisabled(lookup, operators) ==
    LET r == getIPsecDaemonSet(lookup) IN
    IF r.err # "nil" /\ ~isConnResetErr(r.err)
    THEN [done |-> FALSE, err |-> r.err, asked |-> FALSE]
    ELSE ThenOperators(r.ds = NilDS /\ r.err = "nil", operators)

\* Mutant of FirstStage: ensureIPsecEnabled goes to its daemon-set poll at
\* once.
FirstStageSkipsMachineConfig(fn) ==
    CASE fn = "Disabled" -> "Absent"
      [] fn = "Enabled" -> "DaemonSet"
      [] OTHER -> "MachineConfig"

\* The first stage of each ensure function: ensureIPsecEnabled starts with a
\* whole ensureIPsecMachineConfigRolloutComplete.
FirstStage(fn) == IF fn = "Disabled" THEN "Absent" ELSE "MachineConfig"

\* The entry of ensureIPsecEnabled / ...RolloutComplete / ...Disabled.
BeginPoll(fn) ==
    [IdlePoll EXCEPT !.pc = "probe", !.fn = fn, !.stage = FirstStage(fn)]

\* Mutant of PollAfter: the timeout ends the poll with a nil error.
PollAfterTimeoutNil(p, c, it) ==
    IF c.err # "nil"
    THEN {[p EXCEPT !.pc = "done", !.result = c.err,
                    !.last = [it EXCEPT !.out = "abort"]]}
    ELSE IF c.done
    THEN IF p.fn = "Enabled" /\ p.stage = "MachineConfig"
         THEN {[p EXCEPT !.stage = "DaemonSet", !.elapsed = 0,
                         !.last = [it EXCEPT !.out = "converged"]]}
         ELSE {[p EXCEPT !.pc = "done", !.result = "nil",
                         !.last = [it EXCEPT !.out = "converged"]]}
    ELSE {[p EXCEPT !.elapsed = @ + ipsecRolloutWaitInterval,
                    !.last = [it EXCEPT !.out = "notReady"]]
             : x \in {y \in {1} : p.elapsed + ipsecRolloutWaitInterval
                                     <= ipsecRolloutWaitDuration}}
         \cup
         {[p EXCEPT !.pc = "done", !.result = "nil",
                    !.last = [it EXCEPT !.out = "notReady"]]
             : x \in {y \in {1} : p.elapsed + ipsecRolloutWaitInterval
                                     >= ipsecRolloutWaitDuration}}

\* wait.PollUntilContextTimeout(ctx, interval, timeout, immediate = true,
\* condition) after one call of condition: an error ends the poll with it,
\* done ends it with nil, otherwise the next call comes one interval later
\* unless the timeout has passed, which ends the poll with the context's
\* deadline error.
PollAfter(p, c, it) ==
    IF c.err # "nil"
    THEN {[p EXCEPT !.pc = "done", !.result = c.err,
                    !.last = [it EXCEPT !.out = "abort"]]}
    ELSE IF c.done
    THEN IF p.fn = "Enabled" /\ p.stage = "MachineConfig"
         THEN {[p EXCEPT !.stage = "DaemonSet", !.elapsed = 0,
                         !.last = [it EXCEPT !.out = "converged"]]}
         ELSE {[p EXCEPT !.pc = "done", !.result = "nil",
                         !.last = [it EXCEPT !.out = "converged"]]}
    ELSE {[p EXCEPT !.elapsed = @ + ipsecRolloutWaitInterval,
                    !.last = [it EXCEPT !.out = "notReady"]]
             : x \in {y \in {1} : p.elapsed + ipsecRolloutWaitInterval
                                     <= ipsecRolloutWaitDuration}}
         \cup
         {[p EXCEPT !.pc = "done", !.result = "DeadlineExceeded",
                    !.last = [it EXCEPT !.out = "notReady"]]
             : x \in {y \in {1} : p.elapsed + ipsecRolloutWaitInterval
                                     >= ipsecRolloutWaitDuration}}

\* Mutant of waitForIPsecConfigToComplete: External runs ensureIPsecEnabled.
waitForIPsecConfigToCompleteExternalAsFull(mode) ==
    CASE mode = "Disabled" -> "Disabled"
      [] mode = "External" -> "Enabled"
      [] mode = "Full" -> "Enabled"

\* waitForIPsecConfigToComplete: the ensure function run for each mode.
waitForIPsecConfigToComplete(mode) ==
    CASE mode = "Disabled" -> "Disabled"
      [] mode = "External" -> "MachineConfig"
      [] mode = "Full" -> "Enabled"

\* The entry of waitForIPsecConfigToComplete(oc, mode).
BeginWait(mode) ==
    [BeginPoll(waitForIPsecConfigToComplete(mode)) EXCEPT !.mode = mode]

\* What the structural check of the running stage can answer.
StructuralAnswers(stage) ==
    IF stage = "MachineConfig" THEN HelperAnswers ELSE LookupAnswers

\* What the structural check of a stage returns to its condition function:
\* areMachineConfigPoolsReadyWithIPsec's and isIPsecDaemonSetRunning's own
\* (done, err), and for ensureIPsecDisabled the test ds == nil && err == nil
\* on getIPsecDaemonSet's result.
StructuralCheck(stage, structural) ==
    CASE stage = "MachineConfig" -> structural
      [] stage = "DaemonSet" -> isIPsecDaemonSetRunning(structural)
      [] stage = "Absent" ->
            LET r == getIPsecDaemonSet(structural)
            IN [done |-> r.ds = NilDS /\ r.err = "nil", err |-> r.err]

\* What one call of the condition function asked and got.
Iteration(p, structural, c, operators) ==
    [stage |-> p.stage, structErr |-> structural.err, askedOperators |-> c.asked,
     operatorsErr |-> IF c.asked THEN operators.err ELSE "nil", out |-> "none",
     structRet |-> StructuralCheck(p.stage, structural),
     operatorsDone |-> c.asked /\ operators.done]

\* The condition function of the running stage.
Condition(stage, structural, operators) ==
    CASE stage = "MachineConfig" -> conditionMachineConfig(structural, operators)
      [] stage = "DaemonSet" -> conditionEnabled(structural, operators)
      [] stage = "Absent" -> conditionDisabled(structural, operators)

\* One call of the condition function of the running poll, with the answers
\* of the cluster, and the poll's reaction to it.
PollIteration ==
    /\ poll.pc = "probe"
    /\ \E structural \in StructuralAnswers(poll.stage), operators \in HelperAnswers :
          LET c == Condition(poll.stage, structural, operators)
              p == [poll EXCEPT
                       !.ran = @ \cup {poll.stage},
                       !.poolsTrue = @ \/ (poll.stage = "MachineConfig"
                                              /\ structural.done)]
          IN poll' \in PollAfter(p, c, Iteration(poll, structural, c, operators))
    /\ UNCHANGED <<network, call, trial, verify, scn, mirror>>

\* SpecPoll calls waitForIPsecConfigToComplete with each mode.
StartPoll ==
    /\ poll.pc = "idle"
    /\ \E mode \in IPsecModes : poll' = BeginWait(mode)
    /\ UNCHANGED <<network, call, trial, verify, scn, mirror>>

InitPoll == InitTrial

NextPoll == StartPoll \/ PollIteration

SpecPoll == InitPoll /\ [][NextPoll]_vars

----------------------------------------------------------------------------
(* Claims on the convergence polls, checked under SpecPoll                 *)

\* The last iteration got an error of the class e from one of the checks it
\* made: the machine-config-pool check, the daemon-set lookup or the
\* operator-health check.
IterationGot(e) ==
    /\ poll.last.out # "none"
    /\ \/ poll.last.structErr = e
       \/ poll.last.askedOperators /\ poll.last.operatorsErr = e

\* C9: in every convergence poll, a non-transient error returned by any
\* constituent check of an iteration aborts the poll on that iteration and is
\* returned to the caller.
C9_NonTransientErrorAborts ==
    IterationGot("Other") =>
        poll.last.out = "abort" /\ poll.pc = "done" /\ poll.result = "Other"

\* C10: an iteration in which a constituent check returned a connection-reset
\* error neither aborts the poll nor reports convergence: it yields "not yet
\* ready".
C10_ConnResetMeansNotReady ==
    IterationGot("ConnReset") /\ ~IterationGot("Other") =>
        poll.last.out = "notReady"

\* C27: isIPsecDaemonSetRunning returns a non-nil error whenever the
\* daemon-set lookup (getIPsecDaemonSet) returned a non-nil error, whether or
\* not the lookup also returned a non-nil object, and it returns true only
\* when the lookup succeeded (and desired equals ready).
C27_RunningReportsLookupError ==
    poll.last.stage = "DaemonSet" /\ poll.last.out # "none" =>
        /\ poll.last.structErr \in {"ConnReset", "Other"} =>
              poll.last.structRet.err = poll.last.structErr
        /\ poll.last.structRet.done => poll.last.structErr = "nil"

\* The running poll has ended on its deadline: its last call of the condition
\* function returned (false, nil), and no call returned true or an error.
TimedOut == poll.pc = "done" /\ poll.last.out = "notReady"

\* C11 as stated: when a convergence poll's probe never returns true and
\* never returns a non-transient error before the deadline, the poll ends
\* "not converged" with no error value.
C11_Original == TimedOut => poll.result = "nil"

\* C11 as amended: such a poll ends with a non-nil error, the deadline error
\* of the poll's context, and not before the wait duration has passed; only a
\* poll whose condition returned true ends with a nil error.
C11_DeadlineIsAnError ==
    /\ TimedOut =>
          /\ poll.result = "DeadlineExceeded"
          /\ poll.elapsed + ipsecRolloutWaitInterval >= ipsecRolloutWaitDuration
    /\ poll.pc = "done" /\ poll.result = "nil" => poll.last.out = "converged"

\* C11 witness: ensureIPsecMachineConfigRolloutComplete, run for External,
\* has ended on its deadline with the deadline error.
C11_Witness ==
    /\ TimedOut /\ poll.mode = "External" /\ poll.fn = "MachineConfig"
    /\ poll.result = "DeadlineExceeded"

\* The wait has reported convergence to its caller.
WaitConverged == poll.pc = "done" /\ poll.result = "nil"

\* C12 as stated: for every target mode, waitForIPsecConfigToComplete does
\* not report convergence unless the machine-config-pool rollout check has
\* returned true.
C12_Original == WaitConverged => poll.poolsTrue

\* C12 as amended: for the target modes External and Full the wait does not
\* report convergence unless the machine-config-pool rollout check has
\* returned true; for Disabled the wait never makes that check.
C12_MachineConfigProbeUnlessDisabled ==
    /\ WaitConverged /\ poll.mode \in {"External", "Full"} => poll.poolsTrue
    /\ poll.mode = "Disabled" => "MachineConfig" \notin poll.ran /\ ~poll.poolsTrue

\* C12 witness: the wait for Full has reported convergence after the
\* machine-config-pool check returned true.
C12_Witness ==
    WaitConverged /\ poll.mode = "Full" /\ poll.poolsTrue

\* C13: waitForIPsecConfigToComplete runs the workload-presence probe (daemon
\* set desired equals ready, then operators healthy) only for Full and the
\* workload-absence probe only for Disabled, External runs neither; and a
\* wait that reports convergence has run the presence probe when the mode is
\* Full (its last iteration asked the operators and got true) and the absence
\* probe when the mode is Disabled.
C13_ProbesPerMode ==
    /\ "DaemonSet" \in poll.ran => poll.mode = "Full"
    /\ "Absent" \in poll.ran => poll.mode = "Disabled"
    /\ WaitConverged =>
          /\ poll.mode = "Full" =>
                /\ "DaemonSet" \in poll.ran
                /\ poll.last.stage = "DaemonSet"
                /\ poll.last.structRet.done /\ poll.last.operatorsDone
          /\ poll.mode = "Disabled" => poll.ran = {"Absent"}
          /\ poll.mode = "External" => poll.ran = {"MachineConfig"}

\* C13 witness: the wait for Full has reported convergence after running the
\* machine-config stage and the workload-presence probe.
C13_Witness ==
    /\ WaitConverged /\ poll.mode = "Full"
    /\ poll.ran = {"MachineConfig", "DaemonSet"}

\* C14: an iteration of ensureIPsecDisabled reports converged if and only if
\* the daemon-set lookup answered not-found and the operator-health check
\* returned true; not-found is never the error the poll returns, and a
\* lookup that found the daemon set keeps the iteration at "not converged".
C14_AbsenceProbe ==
    poll.last.stage = "Absent" /\ poll.last.out # "none" =>
        /\ poll.last.out = "converged" <=>
              /\ poll.last.structErr = "NotFound"
              /\ poll.last.askedOperators /\ poll.last.operatorsDone
        /\ poll.result # "NotFound"
        /\ poll.last.structErr = "nil" => poll.last.out = "notReady"

\* C14 witness: ensureIPsecDisabled has returned nil on an iteration whose
\* lookup answered not-found.
C14_Witness ==
    /\ poll.last.stage = "Absent" /\ poll.last.out = "converged"
    /\ poll.last.structErr = "NotFound" /\ poll.pc = "done" /\ poll.result = "nil"

\* C15: in every iteration of every convergence poll the operator-health
\* check is made only after the structural check of that iteration has
\* returned true; a structural check that returned false or an error leaves
\* the operators unasked in that iteration.
C15_OperatorsAfterStructure ==
    poll.last.out # "none" =>
        (poll.last.askedOperators <=>
            poll.last.structRet.done /\ poll.last.structRet.err = "nil")

\* C15 witness: an iteration of the daemon-set stage asked the operators
\* after isIPsecDaemonSetRunning returned true.
C15_Witness ==
    /\ poll.last.stage = "DaemonSet" /\ poll.last.out # "none"
    /\ poll.last.askedOperators /\ poll.last.structRet.done

----------------------------------------------------------------------------
(* checkForGeneveOnlyTraffic / checkForESPOnlyTraffic                      *)

SrcPods == {"srcPing", "srcTcpdump"}
DstPods == {"dstPing", "dstTcpdump"}
\* cleanupTestPods deletes in this order.
DeleteOrder == <<"srcPing", "srcTcpdump", "dstPing", "dstTcpdump">>

\* Mutant of checkTraffic: every mode is verified by checkForGeneveOnlyTraffic.
checkTrafficGeneveOnly(mode) == "Geneve"

\* launchHostNetworkedPodForTCPDump in the goroutine of side k: the node name
\* of k is read and k's tcpdumpPod is assigned.
TcpdumpPodAccesses(k) ==
    {Access(k, k, "nodeName", "read"), Access(k, k, "tcpdumpPod", "write")}

\* Mutant of PingPodAccesses: both goroutines assign the source's pingPod.
PingPodAccessesAllToSrc(k) ==
    {Access(k, k, "nodeName", "read"), Access(k, "src", "pingPod", "write")}

\* CreateExecPodOrFail in the goroutine of side k: k's pingPod is assigned,
\* the pod's node name is read from k.
PingPodAccesses(k) ==
    {Access(k, k, "nodeName", "read"), Access(k, k, "pingPod", "write")}

\* setupTestPods is entered.
SetupEnter ==
    /\ verify.setup.pc = "idle"
    /\ verify' = [verify EXCEPT !.setup = [IdleSetup EXCEPT !.pc = "image"]]
    /\ UNCHANGED <<network, call, trial, poll, scn, mirror>>

\* exutil.DetermineImageFromRelease and the Expect on its error.
SetupImage ==
    /\ verify.setup.pc = "image"
    /\ \E imageErr \in BOOLEAN :
          verify' = [verify EXCEPT !.setup.pc = IF imageErr THEN "failed" ELSE "go1"]
    /\ UNCHANGED <<network, call, trial, poll, scn, mirror>>

\* createSync.Go(...) for the source side, then for the destination side.
SetupGo ==
    /\ verify.setup.pc \in {"go1", "go2"}
    /\ verify' = IF verify.setup.pc = "go1"
                  THEN [verify EXCEPT !.setup.pc = "go2", !.setup.task.src = "launched"]
                  ELSE [verify EXCEPT !.setup.pc = "wait", !.setup.task.dst = "launched"]
    /\ UNCHANGED <<network, call, trial, poll, scn, mirror>>

\* The goroutine of side k launches its tcpdump pod; on an error it returns
\* the error to createSync.
SetupLaunchTcpdump(k) ==
    /\ verify.setup.task[k] = "launched"
    /\ \E launchErr \in BOOLEAN :
          verify' = [verify EXCEPT
                        !.setup.acc = @ \cup TcpdumpPodAccesses(k),
                        !.setup.task[k] = IF launchErr THEN "err" ELSE "tcpdump",
                        !.setup.err = IF launchErr THEN FirstError(@, k) ELSE @,
                        !.pods = IF launchErr THEN @
                                 ELSE @ \cup {IF k = "src" THEN "srcTcpdump" ELSE "dstTcpdump"}]
    /\ UNCHANGED <<network, call, trial, poll, scn, mirror>>

\* The goroutine of side k creates its ping pod and returns nil.
SetupCreatePingPod(k) ==
    /\ verify.setup.task[k] = "tcpdump"
    /\ verify' = [verify EXCEPT
                     !.setup.acc = @ \cup PingPodAccesses(k),
                     !.setup.task[k] = "ok",
                     !.pods = @ \cup {IF k = "src" THEN "srcPing" ELSE "dstPing"}]
    /\ UNCHANGED <<network, call, trial, poll, scn, mirror>>

\* return createSync.Wait()
SetupWait ==
    /\ verify.setup.pc = "wait"
    /\ \A k \in Captures : verify.setup.task[k] \in Finished
    /\ verify' = [verify EXCEPT !.setup.pc = "done", !.err = verify.setup.err,
                                !.created = verify.setup.err = "nil"]
    /\ UNCHANGED <<network, call, trial, poll, scn, mirror>>

\* pingAndCheckNodeTraffic is called on the pair setupTestPods has filled.
TrialOnPair ==
    /\ verify.setup.pc = "done" /\ verify.created
    /\ StartTrial

\* setupTestPods goroutine by goroutine, then trials on its pair.
NextTasks ==
    \/ SetupEnter
    \/ SetupImage
    \/ SetupGo
    \/ \E k \in Captures : SetupLaunchTcpdump(k)
    \/ \E k \in Captures : SetupCreatePingPod(k)
    \/ SetupWait
    \/ TrialOnPair
    \/ TrialStep

SpecTasks == InitTrial /\ [][NextTasks]_vars

\* Two accesses race: different goroutines of one group, the same field, and
\* one of them a write.
Race(a, b) ==
    /\ a.task # b.task
    /\ a.side = b.side /\ a.field = b.field
    /\ "write" \in {a.kind, b.kind}

\* C26: the concurrent tasks of a task group never write the same state: in
\* setupTestPods the source task writes only the source endpoint's pods and
\* the destination task only the destination endpoint's pods, in
\* pingAndCheckNodeTraffic the three tasks only read the endpoints, and no
\* interleaving yields a write-write or read-write race on a field of the
\* pair.
C26_TasksShareNoWrittenState ==
    /\ \A a \in verify.setup.acc :
          a.kind = "write" => a.side = a.task /\ a.field \in {"pingPod", "tcpdumpPod"}
    /\ \A a \in trial.acc : a.kind = "read"
    /\ \A a, b \in verify.setup.acc : ~Race(a, b)
    /\ \A a, b \in trial.acc : ~Race(a, b)

\* C26 witness: both goroutines of setupTestPods have assigned their two pods
\* and the three goroutines of a trial on that pair have read their fields.
C26_Witness ==
    /\ verify.setup.pc = "done"
    /\ Cardinality({a \in verify.setup.acc : a.kind = "write"}) = 4
    /\ trial.pc = "returned"
    /\ {a.task : a \in trial.acc} = Tasks

\* checkTraffic: Full is verified by checkForESPOnlyTraffic, every other mode
\* by checkForGeneveOnlyTraffic.
checkTraffic(mode) == IF mode = "Full" THEN "ESP" ELSE "Geneve"

\* The signature the first trial of a verification captures; the second
\* trial captures the other one.
FirstTrialIsIPsec(kind) == kind = "ESP"

\* The entry of checkFor...OnlyTraffic while the wire carries signature wire.
BeginVerify(kind, wire) ==
    [IdleVerify EXCEPT !.pc = "setup", !.kind = kind, !.wire = wire]

\* setupTestPods and the Expect on its error: each side launches its tcpdump
\* pod and then its ping pod; a failed Expect ends the verification before
\* the deferred cleanup is registered.
SetupTestPods ==
    /\ verify.pc = "setup"
    /\ \E imageErr, srcErr, dstErr \in BOOLEAN :
          LET failed == imageErr \/ srcErr \/ dstErr
              made == IF imageErr THEN {}
                      ELSE (IF srcErr THEN {} ELSE SrcPods)
                           \cup (IF dstErr THEN {} ELSE DstPods)
          IN verify' = [verify EXCEPT
                           !.pods = made,
                           !.err = IF failed THEN "err" ELSE "nil",
                           !.created = ~failed,
                           !.pc = IF failed THEN "ended" ELSE "trial1",
                           !.outcome = IF failed THEN "failed" ELSE "none",
                           !.failedAt = IF failed THEN "setup" ELSE "none"]
    /\ UNCHANGED <<network, call, trial, poll, scn, mirror>>

\* err = pingAndCheckNodeTraffic(src, dst, ...): the call.
VerifyCallTrial ==
    /\ verify.pc \in {"trial1", "trial2"}
    /\ trial.pc = "idle"
    /\ trial' = BeginTrial(IF verify.pc = "trial1"
                           THEN FirstTrialIsIPsec(verify.kind)
                           ELSE ~FirstTrialIsIPsec(verify.kind), verify.wire)
    /\ verify' = [verify EXCEPT !.pc = IF verify.pc = "trial1" THEN "wait1" ELSE "wait2"]
    /\ UNCHANGED <<network, call, poll, scn, mirror>>

\* Mutant of VerifyFirstTrialReturned: checkForESPOnlyTraffic ends, passed,
\* after a successful first trial.
VerifyFirstTrialReturnedESPEnds ==
    /\ verify.pc = "wait1"
    /\ trial.pc = "returned"
    /\ trial' = IdleTrial
    /\ verify' = [verify EXCEPT
                     !.err = trial.result,
                     !.trials = Append(@, [ipsec |-> trial.ipsecTraffic,
                                           result |-> trial.result]),
                     !.pc = IF trial.result = "nil" /\ verify.kind # "ESP"
                            THEN "trial2" ELSE "deferred",
                     !.outcome = IF trial.result # "nil" THEN "failed"
                                 ELSE IF verify.kind = "ESP" THEN "passed" ELSE "none",
                     !.failedAt = IF trial.result = "nil" THEN "none" ELSE "trial1"]
    /\ UNCHANGED <<network, call, poll, scn, mirror>>

\* The first trial has returned: err is assigned and
\* o.Expect(err).NotTo(o.HaveOccurred()) is evaluated.
VerifyFirstTrialReturned ==
    /\ verify.pc = "wait1"
    /\ trial.pc = "returned"
    /\ trial' = IdleTrial
    /\ verify' = [verify EXCEPT
                     !.err = trial.result,
                     !.trials = Append(@, [ipsec |-> trial.ipsecTraffic,
                                           result |-> trial.result]),
                     !.pc = IF trial.result = "nil" THEN "trial2" ELSE "deferred",
                     !.outcome = IF trial.result = "nil" THEN "none" ELSE "failed",
                     !.failedAt = IF trial.result = "nil" THEN "none" ELSE "trial1"]
    /\ UNCHANGED <<network, call, poll, scn, mirror>>

\* The second trial has returned: err is assigned and
\* o.Expect(err).To(o.HaveOccurred()) is evaluated.
VerifySecondTrialReturned ==
    /\ verify.pc = "wait2"
    /\ trial.pc = "returned"
    /\ trial' = IdleTrial
    /\ verify' = [verify EXCEPT
                     !.err = trial.result,
                     !.trials = Append(@, [ipsec |-> trial.ipsecTraffic,
                                           result |-> trial.result]),
                     !.pc = "deferred",
                     !.outcome = IF trial.result = "nil" THEN "failed" ELSE "passed",
                     !.failedAt = IF trial.result = "nil" THEN "trial2" ELSE "none"]
    /\ UNCHANGED <<network, call, poll, scn, mirror>>

\* cleanupTestPods: the pods are deleted in order; a failed delete fails its
\* Expect and leaves the rest. failAt = 0 means every delete succeeded.
cleanupTestPods(pods, failAt) ==
    IF failAt = 0 THEN {}
    ELSE pods \ {DeleteOrder[k] : k \in 1..(failAt - 1)}

\* The test of the deferred function:
\* if err != nil && !framework.TestContext.DeleteNamespaceOnFailure { return }
SkipCleanup(err, deleteOnFailure) == err # "nil" /\ ~deleteOnFailure

\* The deferred function of the verification.
VerifyDeferred ==
    /\ verify.pc = "deferred"
    /\ IF SkipCleanup(verify.err, scn.deleteOnFailure)
       THEN verify' = [verify EXCEPT !.pc = "ended"]
       ELSE \E failAt \in 0..Len(DeleteOrder) :
               verify' = [verify EXCEPT
                             !.pc = "ended",
                             !.pods = cleanupTestPods(verify.pods, failAt),
                             !.cleanupErr = failAt # 0,
                             !.outcome = IF failAt # 0 THEN "failed" ELSE @,
                             !.failedAt = IF failAt # 0 /\ @ = "none" THEN "cleanup" ELSE @]
    /\ UNCHANGED <<network, call, trial, poll, scn, mirror>>

VerifyStep ==
    \/ SetupTestPods
    \/ VerifyCallTrial
    \/ VerifyFirstTrialReturned
    \/ VerifySecondTrialReturned
    \/ VerifyDeferred

----------------------------------------------------------------------------
(* The Ordered container: BeforeAll, BeforeEach, the specs, AfterEach      *)

\* The specs in the order the container declares them.
Specs == <<"Full", "External", "Disabled", "NorthSouth">>

\* Mutant of TableBody: the new mode is verified before the convergence wait.
TableBodyVerifiesBeforeWait == <<"check1", "setMode", "check2", "wait">>

\* The body of a table entry.
TableBody == <<"check1", "setMode", "wait", "check2">>

\* Mutant of NorthSouthBody: the certificates' date is looked at after the
\* machine config that carries them has been created.
NorthSouthBodyLateDateCheck ==
    <<"check1", "setMode", "wait", "checkGeneve", "createCerts", "certDate",
      "waitCerts", "deployHandler", "applyLeft", "applyRight", "waitPolicies",
      "checkESP">>

\* The body of the north-south spec.
NorthSouthBody ==
    <<"check1", "setMode", "wait", "checkGeneve", "certDate", "createCerts",
      "waitCerts", "deployHandler", "applyLeft", "applyRight", "waitPolicies",
      "checkESP">>

\* AfterEach.
Teardown ==
    <<"restore", "restoreWait", "deleteRight", "deleteLeft", "undeployHandler",
      "deleteCerts", "waitCertsRemoved">>

VerifySteps == {"check1", "check2", "checkGeneve", "checkESP"}
PolicyWaitSteps == {"waitPolicies"}
SetModeSteps == {"setMode", "restore"}
WaitSteps == {"wait", "restoreWait"}

BodyOf(test) == IF test = "NorthSouth" THEN NorthSouthBody ELSE TableBody

StepsOf(s) == IF s.phase = "teardown" THEN Teardown ELSE BodyOf(s.test)

CurrentStep(s) == StepsOf(s)[s.i]

\* The mode a spec rolls out: the table entry's, External for north-south.
TargetMode(test) == IF test = "NorthSouth" THEN "External" ELSE test

\* Mutant of RestoreTarget: AfterEach configures the mode of the spec again.
RestoreTargetOfSpec(s) == TargetMode(s.test)

\* AfterEach: configureIPsecMode(oc, config.ipsecMode).
RestoreTarget(s) == s.ipsecMode

\* The mode a verifying step passes to checkTraffic; the north-south spec
\* calls checkForGeneveOnlyTraffic and checkForESPOnlyTraffic itself.
VerifyMode(s) ==
    CASE CurrentStep(s) = "check1" -> s.ipsecMode
      [] CurrentStep(s) = "check2" -> TargetMode(s.test)
      [] OTHER -> "none"

\* The verification each verifying step runs.
VerifyKind(s) ==
    CASE CurrentStep(s) = "check1" -> checkTraffic(s.ipsecMode)
      [] CurrentStep(s) = "check2" -> checkTraffic(TargetMode(s.test))
      [] CurrentStep(s) = "checkGeneve" -> "Geneve"
      [] CurrentStep(s) = "checkESP" -> "ESP"

\* Mutant of AfterBodyFailure: a failed body ends the spec at once.
AfterBodyFailureNoTeardown == "specEnd"

\* Ginkgo runs AfterEach after the body whether the body passed or failed.
AfterBodyFailure == "teardown"

\* What the spec's log keeps of a step that has ended.
Entry(s, ok) == [phase |-> s.phase, step |-> CurrentStep(s), ok |-> ok]

\* Mutant of Fail: a failure in AfterEach is reported as the spec's failure
\* in place of the body's.
FailTeardownReplaces(s) ==
    IF s.phase = "teardown"
    THEN [s EXCEPT !.phase = "specEnd", !.sub = "enter",
                   !.teardownFailedAt = CurrentStep(s),
                   !.failedAt = CurrentStep(s),
                   !.log = Append(@, Entry(s, FALSE))]
    ELSE [s EXCEPT !.phase = AfterBodyFailure, !.i = 1, !.sub = "enter",
                   !.failedAt = CurrentStep(s),
                   !.log = Append(@, Entry(s, FALSE))]

\* A failed Expect (or Failf) at the current step: the body gives way to
\* AfterEach, AfterEach ends where it failed.
Fail(s) ==
    IF s.phase = "teardown"
    THEN [s EXCEPT !.phase = "specEnd", !.sub = "enter",
                   !.teardownFailedAt = CurrentStep(s),
                   !.log = Append(@, Entry(s, FALSE))]
    ELSE [s EXCEPT !.phase = AfterBodyFailure, !.i = 1, !.sub = "enter",
                   !.failedAt = CurrentStep(s),
                   !.log = Append(@, Entry(s, FALSE))]

\* The current step passed: on to the next one, from the body's last step to
\* AfterEach, from AfterEach's last step to the end of the spec.
Pass(s) ==
    IF s.i < Len(StepsOf(s))
    THEN [s EXCEPT !.i = @ + 1, !.sub = "enter", !.log = Append(@, Entry(s, TRUE))]
    ELSE IF s.phase = "teardown"
    THEN [s EXCEPT !.phase = "specEnd", !.sub = "enter",
                   !.log = Append(@, Entry(s, TRUE))]
    ELSE [s EXCEPT !.phase = "teardown", !.i = 1, !.sub = "enter",
                   !.log = Append(@, Entry(s, TRUE))]

AtStep(kinds) ==
    /\ scn.phase \in {"body", "teardown"}
    /\ CurrentStep(scn) \in kinds

\* BeforeAll: config.ipsecMode is what getIPsecMode reads before any spec.
BeforeAll ==
    /\ scn.phase = "BeforeAll"
    /\ \E apiErr \in {"nil", "ConnReset", "Other"} :
          LET r == getIPsecMode(network.cfg, apiErr)
              read == [cfg |-> network.cfg, apiErr |-> apiErr,
                       mode |-> r.mode, err |-> r.err]
          IN scn' = IF r.err # "nil"
                    THEN [scn EXCEPT !.phase = "over", !.read = read]
                    ELSE [scn EXCEPT !.phase = "BeforeEach", !.test = Specs[1],
                                     !.ipsecMode = r.mode, !.read = read]
    /\ UNCHANGED <<network, call, trial, poll, verify, mirror>>

\* BeforeEach: the two nodes, their interfaces and addresses are found, or
\* an Expect fails and AfterEach runs.
BeforeEach ==
    /\ scn.phase = "BeforeEach"
    /\ \E failed \in BOOLEAN :
          scn' = IF failed
                 THEN [scn EXCEPT !.phase = "teardown", !.i = 1,
                                  !.failedAt = "BeforeEach", !.read = NoRead]
                 ELSE [scn EXCEPT !.phase = "body", !.i = 1, !.read = NoRead]
    /\ UNCHANGED <<network, call, trial, poll, verify, mirror>>

\* A step that is one call and one Expect on its result.
SimpleStep ==
    /\ AtStep(UNION {{StepsOf(scn)[k]} : k \in 1..Len(StepsOf(scn))}
              \ (VerifySteps \cup SetModeSteps \cup WaitSteps \cup PolicyWaitSteps))
    /\ \E failed \in BOOLEAN : scn' = IF failed THEN Fail(scn) ELSE Pass(scn)
    /\ UNCHANGED <<network, call, trial, poll, verify, mirror>>

\* Mutant of PolicyIteration: the function polled by Eventually returns true
\* as soon as the left policy carries the marker.
PolicyIterationLeftOnly(getLeftErr, left, getRightErr, right) ==
    IF getLeftErr
    THEN [out |-> "fail", ns |-> NoPolicyPoll]
    ELSE [out |-> IF left THEN "true" ELSE "false",
          ns |-> [NoPolicyPoll EXCEPT !.gotLeft = TRUE, !.left = left]]

\* One call of the function waitForIPsecNSConfigApplied hands to Eventually:
\* the left policy is fetched (a failed get fails its Expect) and false is
\* returned when its rendering lacks "1/1 nodes successfully configured";
\* only then the right policy is fetched and its marker is the result.
PolicyIteration(getLeftErr, left, getRightErr, right) ==
    IF getLeftErr
    THEN [out |-> "fail", ns |-> NoPolicyPoll]
    ELSE IF ~left
    THEN [out |-> "false",
          ns |-> [NoPolicyPoll EXCEPT !.gotLeft = TRUE]]
    ELSE IF getRightErr
    THEN [out |-> "fail",
          ns |-> [NoPolicyPoll EXCEPT !.gotLeft = TRUE, !.left = TRUE]]
    ELSE [out |-> IF right THEN "true" ELSE "false",
          ns |-> [gotLeft |-> TRUE, left |-> TRUE, gotRight |-> TRUE, right |-> right]]

\* waitForIPsecNSConfigApplied: Eventually(...).Should(BeTrue()) calls the
\* function again until it returns true or the 30 seconds are over.
WaitPolicies ==
    /\ AtStep(PolicyWaitSteps)
    /\ \E getLeftErr, left, getRightErr, right, timedOut \in BOOLEAN :
          LET r == PolicyIteration(getLeftErr, left, getRightErr, right)
              s == [scn EXCEPT !.ns = r.ns]
          IN scn' = CASE r.out = "true" -> Pass(s)
                      [] r.out = "fail" -> Fail(s)
                      [] r.out = "false" -> IF timedOut THEN Fail(s) ELSE s
    /\ UNCHANGED <<network, call, trial, poll, verify, mirror>>

\* checkTraffic / checkForGeneveOnlyTraffic / checkForESPOnlyTraffic is called.
CallVerify ==
    /\ AtStep(VerifySteps)
    /\ scn.sub = "enter"
    /\ \E wire \in {"esp", "geneve"} :
          verify' = [BeginVerify(VerifyKind(scn), wire) EXCEPT !.mode = VerifyMode(scn)]
    /\ scn' = [scn EXCEPT !.sub = "await"]
    /\ UNCHANGED <<network, call, trial, poll, mirror>>

\* The verification has ended: a failed Expect inside it fails the step.
VerifyReturned ==
    /\ AtStep(VerifySteps)
    /\ scn.sub = "await"
    /\ verify.pc = "ended"
    /\ scn' = IF verify.outcome = "passed" THEN Pass(scn) ELSE Fail(scn)
    /\ verify' = [verify EXCEPT !.pc = "idle"]
    /\ UNCHANGED <<network, call, trial, poll, mirror>>

\* configureIPsecMode is called: by the body with the spec's mode, by
\* AfterEach with config.ipsecMode.
CallSetMode ==
    /\ AtStep(SetModeSteps)
    /\ scn.sub = "enter"
    /\ LET m == IF scn.phase = "teardown" THEN RestoreTarget(scn)
                ELSE TargetMode(scn.test)
       IN /\ call' = [call EXCEPT !["test"] = BeginCall(IdleCall, m, network)]
          /\ scn' = [scn EXCEPT
                        !.sub = "await",
                        !.restore = IF scn.phase = "teardown"
                                    THEN [called |-> TRUE, desired |-> m, result |-> "none"]
                                    ELSE @]
    /\ UNCHANGED <<network, trial, poll, verify, mirror>>

\* configureIPsecMode has returned: o.Expect(err).NotTo(o.HaveOccurred()).
SetModeReturned ==
    /\ AtStep(SetModeSteps)
    /\ scn.sub = "await"
    /\ call["test"].pc = "done"
    /\ LET r == call["test"].result
           s == IF scn.phase = "teardown" THEN [scn EXCEPT !.restore.result = r] ELSE scn
       IN scn' = IF r = "nil" THEN Pass(s)
                 ELSE [Fail(s) EXCEPT !.failedWith = IF scn.phase = "body" THEN r ELSE @]
    /\ call' = [call EXCEPT !["test"] = IdleCall]
    /\ UNCHANGED <<network, trial, poll, verify, mirror>>

\* waitForIPsecConfigToComplete is called.
CallWait ==
    /\ AtStep(WaitSteps)
    /\ scn.sub = "enter"
    /\ LET m == IF scn.phase = "teardown" THEN scn.ipsecMode ELSE TargetMode(scn.test)
       IN /\ poll' = BeginWait(m)
          /\ scn' = [scn EXCEPT
                        !.sub = "await",
                        !.restoreWait = IF scn.phase = "teardown"
                                        THEN [fn |-> waitForIPsecConfigToComplete(m),
                                              result |-> "none"]
                                        ELSE @]
    /\ UNCHANGED <<network, call, trial, verify, mirror>>

\* The ensure function has returned: o.Expect(err).NotTo(o.HaveOccurred()).
WaitReturned ==
    /\ AtStep(WaitSteps)
    /\ scn.sub = "await"
    /\ poll.pc = "done"
    /\ LET r == poll.result
           s == IF scn.phase = "teardown" THEN [scn EXCEPT !.restoreWait.result = r] ELSE scn
       IN scn' = IF r = "nil" THEN Pass(s)
                 ELSE [Fail(s) EXCEPT !.failedWith = IF scn.phase = "body" THEN r ELSE @]
    /\ poll' = IdlePoll
    /\ UNCHANGED <<network, call, trial, verify, mirror>>

\* The spec is over: the next spec of the container starts unless this one
\* failed, which makes an Ordered container skip the rest.
NextSpec ==
    /\ scn.phase = "specEnd"
    /\ LET k == CHOOSE j \in 1..Len(Specs) : Specs[j] = scn.test
           failed == scn.failedAt # "none" \/ scn.teardownFailedAt # "none"
       IN scn' = IF failed \/ k = Len(Specs)
                 THEN [scn EXCEPT !.phase = "over"]
                 ELSE [scn EXCEPT !.phase = "BeforeEach", !.test = Specs[k + 1],
                                  !.i = 1, !.sub = "enter",
                                  !.restore = NoRestore, !.restoreWait = NoWait,
                                  !.log = <<>>, !.ns = NoPolicyPoll]
    /\ UNCHANGED <<network, call, trial, poll, verify, mirror>>

\* While the test's configureIPsecMode runs, other clients write the object.
OperatorTouch ==
    /\ call["test"].pc \in {"get", "update"}
    /\ ExternalTouch

Init ==
    /\ network \in [cfg : ConfigShapes]
    /\ call = [w \in Callers |-> IdleCall]
    /\ trial = IdleTrial
    /\ poll = IdlePoll
    /\ verify = IdleVerify
    /\ scn \in {[IdleScn EXCEPT !.phase = "BeforeAll", !.deleteOnFailure = d] : d \in BOOLEAN}
    /\ mirror = IdleMirror

Next ==
    \/ BeforeAll
    \/ BeforeEach
    \/ SimpleStep
    \/ WaitPolicies
    \/ CallVerify
    \/ VerifyReturned
    \/ CallSetMode
    \/ SetModeReturned
    \/ CallWait
    \/ WaitReturned
    \/ NextSpec
    \/ VerifyStep
    \/ TrialStep
    \/ PollIteration
    \/ GetStep("test")
    \/ UpdateStep("test")
    \/ OperatorTouch

Spec == Init /\ [][Next]_vars

----------------------------------------------------------------------------
(* Claims on the scenario, checked under Spec                              *)

\* C7: whichever step of the body failed (or none), AfterEach has called
\* configureIPsecMode with the mode BeforeAll recorded and then waited for the
\* fleet to converge on that mode: at the end of the spec the stored record
\* reads as the recorded mode unless the restoring call itself returned an
\* error, and AfterEach went past the wait only when the ensure function of
\* the recorded mode returned nil.
C7_TeardownRestoresRecordedMode ==
    scn.phase = "specEnd" =>
        /\ scn.restore.called
        /\ scn.restore.desired = scn.ipsecMode
        /\ scn.teardownFailedAt # "restore" =>
              /\ scn.restore.result = "nil"
              /\ getIPsecMode(network.cfg, "nil").mode = scn.ipsecMode
              /\ scn.restoreWait.fn = waitForIPsecConfigToComplete(scn.ipsecMode)
        /\ scn.teardownFailedAt \notin {"restore", "restoreWait"} =>
              scn.restoreWait.result = "nil"

\* C7 witness: the body failed in its convergence wait on a poll timeout,
\* after the mode had been changed, and AfterEach wrote the recorded mode
\* back and waited for it.
C7_Witness ==
    /\ scn.phase = "specEnd"
    /\ scn.failedAt = "wait" /\ scn.failedWith = "DeadlineExceeded"
    /\ TargetMode(scn.test) # scn.ipsecMode
    /\ scn.restore.result = "nil" /\ scn.restoreWait.result = "nil"
    /\ network.cfg = scn.ipsecMode

\* The steps of the running spec's body, and of its AfterEach, that have
\* ended, in the order they ended.
BodyLog == SelectSeq(scn.log, LAMBDA e : e.phase = "body")
TeardownLog == SelectSeq(scn.log, LAMBDA e : e.phase = "teardown")
StepsIn(log) == {log[k].step : k \in 1..Len(log)}
\* The k-th logged step is the k-th step of steps, and only the last logged
\* step can have failed.
RanInOrder(log, steps) ==
    /\ Len(log) <= Len(steps)
    /\ \A k \in 1..Len(log) :
          /\ log[k].step = steps[k]
          /\ k < Len(log) => log[k].ok

\* The steps that verify the mode the body has rolled out.
TargetVerifySteps == {"check2", "checkGeneve"}

\* C21: in every scenario the verification of the target mode runs only after
\* configureIPsecMode returned nil and the convergence wait for that mode
\* returned nil; a wait that timed out or returned an error fails the body at
\* that step: the wait is not made again and the target mode is not verified.
C21_VerifyOnlyAfterSetAndWait ==
    LET B == BodyLog
        started == StepsIn(B) \cup
                   (IF scn.phase = "body" THEN {CurrentStep(scn)} ELSE {})
    IN /\ started \cap TargetVerifySteps # {} =>
             \E i, j \in 1..Len(B) :
                /\ i < j
                /\ B[i] = [phase |-> "body", step |-> "setMode", ok |-> TRUE]
                /\ B[j] = [phase |-> "body", step |-> "wait", ok |-> TRUE]
       /\ \A k \in 1..Len(B) :
             B[k].step = "wait" /\ ~B[k].ok =>
                /\ k = Len(B)
                /\ scn.phase # "body"
                /\ scn.failedAt = "wait"
                /\ StepsIn(B) \cap TargetVerifySteps = {}
       /\ Cardinality({k \in 1..Len(B) : B[k].step = "wait"}) <= 1
       /\ Cardinality({k \in 1..Len(B) : B[k].step = "setMode"}) <= 1

\* C21 witness: the External entry verified its target mode after the mode
\* was set and the wait returned nil.
C21_Witness ==
    /\ scn.test = "External" /\ scn.phase = "teardown"
    /\ Len(BodyLog) = 4 /\ BodyLog[4].step = "check2"
    /\ BodyLog[2].ok /\ BodyLog[3].ok

\* The steps of the north-south body that change the network.
ModeWriteSteps == {"setMode"}
CertAndPolicySteps ==
    {"createCerts", "waitCerts", "deployHandler", "applyLeft", "applyRight",
     "waitPolicies"}

\* The north-south body has aborted on the certificates' validity date.
CertsExpired == scn.test = "NorthSouth" /\ scn.failedAt = "certDate"

\* C22 as stated: when the certificates are past their validity date the
\* north-south scenario aborts before any network change has been attempted:
\* no mode write, no certificate configuration, no handler deployment and no
\* policy submission precedes the abort.
C22_Original ==
    CertsExpired =>
        StepsIn(BodyLog) \cap (ModeWriteSteps \cup CertAndPolicySteps) = {}

\* C22 as amended: the abort comes before any certificate configuration,
\* handler deployment or policy submission, but after the mode was written to
\* External, the fleet converged on it and the plain-overlay verification
\* passed.
C22_AbortBeforeCertsAfterModeWrite ==
    CertsExpired =>
        /\ StepsIn(BodyLog) \cap CertAndPolicySteps = {}
        /\ Len(BodyLog) = 5
        /\ \A k \in 1..4 : BodyLog[k].ok
        /\ <<BodyLog[2].step, BodyLog[3].step, BodyLog[4].step, BodyLog[5].step>>
              = <<"setMode", "wait", "checkGeneve", "certDate">>

\* C22 witness: the north-south spec has ended after aborting on the
\* certificates' date.
C22_Witness ==
    CertsExpired /\ scn.phase = "specEnd" /\ ~BodyLog[5].ok

\* C23 as stated: every teardown step is attempted even when an earlier
\* teardown step fails, and a teardown failure never replaces the body's
\* original failure.
C23_Original ==
    scn.phase = "specEnd" =>
        /\ StepsIn(TeardownLog) = {Teardown[k] : k \in 1..Len(Teardown)}
        /\ \A k \in 1..Len(BodyLog) : ~BodyLog[k].ok => scn.failedAt = BodyLog[k].step

\* C23 as amended: the teardown steps run in their order and each is
\* attempted only when every earlier teardown step succeeded: the first
\* failed step ends AfterEach and the later steps are not attempted; a
\* teardown failure never replaces the body's original failure.
C23_TeardownStopsAtFirstFailure ==
    /\ RanInOrder(TeardownLog, Teardown)
    /\ scn.phase = "specEnd" =>
          /\ Len(TeardownLog) >= 1
          /\ Len(TeardownLog) < Len(Teardown) =>
                /\ ~TeardownLog[Len(TeardownLog)].ok
                /\ scn.teardownFailedAt = TeardownLog[Len(TeardownLog)].step
          /\ scn.teardownFailedAt = "none" => Len(TeardownLog) = Len(Teardown)
    /\ \A k \in 1..Len(BodyLog) : ~BodyLog[k].ok => scn.failedAt = BodyLog[k].step

\* C23 witness: the body failed at its verification, AfterEach then failed at
\* the removal of the right policy and the spec ended with the remaining
\* teardown steps unattempted and the body's failure kept.
C23_Witness ==
    /\ scn.phase = "specEnd" /\ scn.failedAt = "check2"
    /\ scn.teardownFailedAt = "deleteRight" /\ Len(TeardownLog) = 3

\* C25: in the north-south scenario the steps occur in this order, each
\* starting only after the previous one succeeded: External mode converged
\* and plain-overlay verification passed, certificate configuration created,
\* worker pool converged on it, policy handler deployed, left policy applied,
\* right policy applied, both policies carrying the "successfully configured"
\* marker in the same poll iteration, encrypted-only verification.
C25_NorthSouthOrder ==
    scn.test = "NorthSouth" =>
        /\ RanInOrder(BodyLog, NorthSouthBody)
        /\ scn.phase = "body" => scn.i = Len(BodyLog) + 1
        /\ (\E k \in 1..Len(BodyLog) :
                BodyLog[k].step = "waitPolicies" /\ BodyLog[k].ok)
              => scn.ns = [gotLeft |-> TRUE, left |-> TRUE,
                           gotRight |-> TRUE, right |-> TRUE]

\* C25 witness: the north-south body ran all its steps and its encrypted-only
\* verification passed.
C25_Witness ==
    /\ scn.test = "NorthSouth" /\ Len(BodyLog) = Len(NorthSouthBody)
    /\ BodyLog[Len(BodyLog)].step = "checkESP" /\ BodyLog[Len(BodyLog)].ok

\* C29: the negative-control step of checkForGeneveOnlyTraffic /
\* checkForESPOnlyTraffic is counted as passed only when traffic was generated
\* successfully and no packet of the other signature was captured: whenever
\* the return of the second trial makes the verification pass, that trial's
\* ping succeeded and its error came from the captures.
C29_NegativeControlNeedsTraffic ==
    [][verify.pc = "wait2" /\ verify'.outcome = "passed" =>
          /\ trial.task.ping = "ok"
          /\ trial.pingErr = "nil"
          /\ trial.dumpErr # "nil"]_vars

\* C16: getIPsecMode returns Disabled ("no config") when the IPsec
\* sub-record is missing, Full when the sub-record exists with an empty mode
\* string, and the stored mode unchanged when it is non-empty; on a read
\* error it returns the error.
C16_GetModeReading ==
    scn.read.cfg # "none" =>
        /\ scn.read.apiErr # "nil" => scn.read.err = scn.read.apiErr
        /\ scn.read.apiErr = "nil" =>
              /\ scn.read.err = "nil"
              /\ scn.read.cfg = NilConfig => scn.read.mode = "Disabled"
              /\ scn.read.cfg = EmptyMode => scn.read.mode = "Full"
              /\ scn.read.cfg \in IPsecModes => scn.read.mode = scn.read.cfg

\* C16 witness: BeforeAll read a record whose IPsecConfig is present with an
\* empty mode and recorded Full.
C16_Witness ==
    /\ scn.read.cfg = EmptyMode /\ scn.read.err = "nil"
    /\ scn.read.mode = "Full" /\ scn.ipsecMode = "Full"

\* A verification made through checkTraffic(mode) has ended.
CheckTrafficEnded == verify.pc = "ended" /\ verify.mode # "none"

\* The trials of the ended verification are the pair the mode calls for: the
\* positive trial for the mode's signature returned nil and the trial for the
\* other signature, run after it, returned an error.
TrialsAsExpected ==
    /\ Len(verify.trials) = 2
    /\ verify.trials[1] = [ipsec |-> verify.mode = "Full", result |-> "nil"]
    /\ verify.trials[2] = [ipsec |-> verify.mode # "Full", result |-> "err"]

\* C17 as stated: verification of Full mode runs exactly one trial (a
\* positive encrypted trial), verification of Disabled or External mode runs
\* exactly two trials (a positive plain-overlay one and a negative-control
\* encrypted one); stated of the verifications that pass.
C17_Original ==
    CheckTrafficEnded /\ verify.outcome = "passed" =>
        IF verify.mode = "Full"
        THEN Len(verify.trials) = 1 /\ verify.trials[1].ipsec
        ELSE /\ Len(verify.trials) = 2
             /\ ~verify.trials[1].ipsec /\ verify.trials[2].ipsec

\* C17 as amended: the verification of every mode, Full included, runs its
\* positive trial first (encrypted for Full, plain-overlay for Disabled and
\* External) and, exactly when that trial returned nil, one negative-control
\* trial for the other signature: one or two trials, two in a verification
\* that passes, none when setupTestPods failed.
C17_TwoTrialsForEveryMode ==
    CheckTrafficEnded =>
        /\ ~verify.created => verify.trials = <<>>
        /\ verify.created =>
              /\ Len(verify.trials) \in {1, 2}
              /\ verify.trials[1].ipsec = (verify.mode = "Full")
              /\ Len(verify.trials) = 2 <=> verify.trials[1].result = "nil"
              /\ Len(verify.trials) = 2 =>
                    verify.trials[2].ipsec = (verify.mode # "Full")
        /\ verify.outcome = "passed" => Len(verify.trials) = 2

\* C17 witness: a verification of Full mode has passed after two trials, the
\* encrypted one and then the plain-overlay one.
C17_Witness ==
    /\ CheckTrafficEnded /\ verify.mode = "Full" /\ verify.outcome = "passed"
    /\ Len(verify.trials) = 2
    /\ verify.trials[1].ipsec /\ ~verify.trials[2].ipsec

\* C18 as stated: a mode verification (checkTraffic) passes if and only if
\* the positive trial for the mode's expected signature returned success and
\* the companion trial for the other signature, run afterwards, returned an
\* error; Full expects the encrypted signature, Disabled and External the
\* plain-overlay one.
C18_Original ==
    CheckTrafficEnded => (verify.outcome = "passed" <=> TrialsAsExpected)

\* C18 as amended: a mode verification passes if and only if the two trials
\* went as expected and the deferred cleanup of the test pods, when it ran,
\* deleted them without an error.
C18_PassesIffTrialsAndCleanup ==
    CheckTrafficEnded =>
        (verify.outcome = "passed" <=> TrialsAsExpected /\ ~verify.cleanupErr)

\* C18 witness: a verification of External mode has passed: the plain-overlay
\* trial returned nil and the encrypted trial returned an error.
C18_Witness ==
    /\ CheckTrafficEnded /\ verify.mode = "External" /\ verify.outcome = "passed"
    /\ TrialsAsExpected

\* C8: the four pods a verification created are deleted when it ends, in
\* every outcome, except exactly when the verification failed and
\* DeleteNamespaceOnFailure is off, in which case they are left in place
\* (a failing delete call aside).
C8_PodsDeletedUnlessFailedAndKept ==
    verify.pc = "ended" /\ verify.created /\ ~verify.cleanupErr =>
        (verify.pods = {} <=> ~(verify.outcome = "failed" /\ ~scn.deleteOnFailure))

----------------------------------------------------------------------------
(* SpecStore                                                               *)

InitStore ==
    /\ network \in [cfg : ConfigShapes]
    /\ call = [w \in Callers |-> IdleCall]
    /\ trial = IdleTrial
    /\ poll = IdlePoll
    /\ verify = IdleVerify
    /\ scn = IdleScn
    /\ mirror = IdleMirror

NextStore ==
    \/ \E w \in Callers : StartCall(w)
    \/ \E w \in Callers : GetStep(w)
    \/ \E w \in Callers : UpdateStep(w)
    \/ ExternalTouch

SpecStore == InitStore /\ [][NextStore]_vars

----------------------------------------------------------------------------
(* Claims on configureIPsecMode, checked under SpecStore                   *)

\* Both callers have returned from their first call, which asked for
\* different modes.
RaceOver ==
    /\ \A w \in Callers : call[w].n = 1 /\ call[w].pc = "done"
    /\ call["test"].desired # call["other"].desired

\* A call that returned nil saw the desired mode stored or had its own write
\* of the desired mode accepted.
NotLost(c) == c.result = "nil" => (c.sawEqual \/ c.wroteDesired)

\* C3 as stated: once two racing configureIPsecMode calls asking for different
\* modes A and B have both returned, the stored mode is exactly A or exactly
\* B, and every call that returned nil had its mode stored or observed.
C3_Original ==
    RaceOver =>
        /\ network.cfg \in {call["test"].desired, call["other"].desired}
        /\ \A w \in Callers : NotLost(call[w])

\* C3, amended: once both racing calls have returned and at least one of them
\* returned nil, the stored mode is exactly A or exactly B (when both returned
\* an error no write was accepted and the record is the initial one); every
\* call that returned nil had its mode stored by an accepted write or observed
\* by its read.
C3_RaceEndsInRequestedMode ==
    RaceOver =>
        /\ (\E w \in Callers : call[w].result = "nil")
              => network.cfg \in {call["test"].desired, call["other"].desired}
        /\ (\A w \in Callers : call[w].result # "nil")
              => network.cfg = call["test"].startCfg
        /\ \A w \in Callers : NotLost(call[w])

\* C3 witness: both calls raced (one hit a conflict and retried), both
\* returned nil, and the record started without an IPsecConfig.
C3_Witness ==
    /\ RaceOver
    /\ \A w \in Callers : call[w].result = "nil" /\ call[w].startCfg = NilConfig
    /\ \E w \in Callers : call[w].attempts > 1
    /\ \E w \in Callers : call[w].writes = 1

\* C4: every configureIPsecMode call has at most one accepted write, and it
\* returns nil only if one of its reads found the stored mode equal to the
\* desired one or its own write of the desired mode was accepted.
C4_AtMostOneWriteNoSilentSuccess ==
    \A w \in Callers :
        /\ call[w].writes <= 1
        /\ call[w].prev.writes <= 1
        /\ NotLost(call[w])
        /\ (call[w].wroteDesired => call[w].writes = 1)

\* C4 witness: one call returned nil after a retry with its write accepted,
\* another returned nil without writing because its read found the mode.
C4_Witness ==
    /\ call["test"].result = "nil" /\ call["test"].writes = 1
    /\ call["test"].attempts > 1
    /\ call["other"].result = "nil" /\ call["other"].writes = 0
    /\ call["other"].sawEqual

\* Two consecutive calls of the caller "test" asked for the same mode, the
\* first returned nil, the second has returned, and no other client wrote the
\* object from the start of the first to the end of the second.
TwoInARow ==
    LET c == call["test"] IN
    /\ c.n = 2 /\ c.pc = "done"
    /\ c.prev.desired = c.desired
    /\ c.prev.result = "nil"
    /\ ~c.prev.foreign /\ ~c.foreign

\* C5 as stated: two consecutive setMode(M) calls with no other writer in
\* between perform exactly one underlying write in total, and the second
\* performs none, for any initial record.
C5_Original ==
    TwoInARow /\ call["test"].result = "nil" =>
        /\ call["test"].prev.writes + call["test"].writes = 1
        /\ call["test"].writes = 0

\* C5, amended: two consecutive setMode(M) calls, the first returning nil,
\* with no other writer in between perform at most one underlying write in
\* total: exactly one when the record before the first call had no
\* IPsecConfig or a mode other than M, none when it already held M; the
\* second call performs no write.
C5_SecondCallIsNoOp ==
    TwoInARow =>
        /\ call["test"].writes = 0
        /\ call["test"].prev.writes =
              (IF call["test"].prev.startCfg = call["test"].desired THEN 0 ELSE 1)

\* C5 witness: the first call wrote once, the second returned nil with no
\* write.
C5_Witness ==
    /\ TwoInARow
    /\ call["test"].result = "nil"
    /\ call["test"].prev.writes = 1
    /\ call["test"].writes = 0

\* Caller w has returned from a configureIPsecMode(M) call that started on a
\* record which getIPsecMode reads as M, and nobody else wrote the object
\* meanwhile.
SetToReportedMode(w) ==
    /\ call[w].pc = "done"
    /\ ~call[w].foreign
    /\ getIPsecMode(call[w].startCfg, "nil").mode = call[w].desired

\* C24 as stated: if getIPsecMode reports mode M for the current record,
\* configureIPsecMode(M) on that record performs no underlying write, for
\* every M and every record shape (IPsecConfig missing, mode string empty,
\* mode string explicit).
C24_Original ==
    \A w \in Callers : SetToReportedMode(w) => call[w].writes = 0

\* C24 as amended: configureIPsecMode(M) performs no write when the record
\* holds M explicitly; when getIPsecMode reports M because the IPsecConfig is
\* missing (M = Disabled) or its mode string is empty (M = Full), a call that
\* returns nil has performed one write, which stores M explicitly.
C24_NoWriteOnlyWhenExplicit ==
    \A w \in Callers :
        SetToReportedMode(w) =>
            /\ call[w].startCfg \in IPsecModes => call[w].writes = 0
            /\ call[w].startCfg \in {NilConfig, EmptyMode} /\ call[w].result = "nil" =>
                  call[w].writes = 1 /\ call[w].wroteDesired

\* C24 witness: configureIPsecMode(Disabled) on a record without IPsecConfig
\* returned nil after one write.
C24_Witness ==
    /\ SetToReportedMode("test")
    /\ call["test"].startCfg = NilConfig /\ call["test"].desired = "Disabled"
    /\ call["test"].result = "nil" /\ call["test"].writes = 1

\* C6: fn is run again only after its Update reported a conflict, at most
\* RetrySteps times in all; when the last permitted run conflicts the call
\* ends with the conflict error; any other error of the Get or the Update
\* ends the call at once with that error.
C6_RetryOnlyOnConflictBounded ==
    \A w \in Callers :
        LET c == call[w] IN
        /\ c.attempts <= RetrySteps
        /\ (c.pc \in {"get", "update"} /\ c.attempts > 0
               => c.fnErr = "Conflict" /\ c.errFrom = "update")
        /\ (c.fnErr = "Conflict" => c.errFrom = "update")
        /\ (c.fnErr = "Other" => c.pc = "done" /\ c.result = "Other")
        /\ (c.fnErr = "Conflict" /\ c.attempts = RetrySteps
               => c.pc = "done" /\ c.result = "Conflict")
        /\ (c.result = "Conflict" => c.attempts = RetrySteps)
        /\ (c.pc = "done" /\ c.attempts > 1 /\ c.result = "Other"
               => c.errFrom \in {"get", "update"})

\* C6 witness: one call used all its runs of fn on conflicts and returned the
\* conflict error, while the other returned another error from its first run.
C6_Witness ==
    /\ call["test"].pc = "done" /\ call["test"].result = "Conflict"
    /\ call["test"].attempts = RetrySteps
    /\ call["other"].pc = "done" /\ call["other"].result = "Other"
    /\ call["other"].attempts = 1

----------------------------------------------------------------------------
(* mirrorToFile of cmd/openshift-tests                                     *)

\* The writers opt.Out / opt.ErrOut can be before the call.
Writers == {"nil", "custom"}

\* if opt.Out == nil { opt.Out = os.Stdout }; the same for ErrOut and Stderr.
DefaultWriter(w, std) == IF w = "nil" THEN std ELSE w

\* A write of text to a stream of opt while the MultiWriter is installed: the
\* text reaches the stream and, while the file is open, the file.
WriteMirrored(mr, stream, text) ==
    [mr EXCEPT !.term = Append(@, <<stream, text>>),
               !.file = IF mr.open /\ ~mr.closed THEN Append(@, text) ELSE @]

\* Mutant of ReturnOf: a failed Close is returned in place of fn's result.
ReturnOfCloseFirst(exitErr, closeErr) == IF closeErr THEN "closeErr" ELSE exitErr

\* return exitErr
ReturnOf(exitErr, closeErr) == exitErr

\* mirrorToFile is called: the defaults of Out and ErrOut, then
\* len(opt.OutFile) == 0 decides between calling fn at once and opening the
\* file.
MirrorCall ==
    /\ mirror.pc = "idle"
    /\ \E o \in Writers, e \in Writers, named \in BOOLEAN :
          mirror' = [IdleMirror EXCEPT !.out = DefaultWriter(o, "stdout"),
                                       !.errOut = DefaultWriter(e, "stderr"),
                                       !.outFile = named,
                                       !.invoked = ~named,
                                       !.pc = IF named THEN "open" ELSE "fn"]
    /\ UNCHANGED <<network, call, trial, poll, verify, scn>>

\* os.OpenFile: an error is returned as it is; otherwise both writers become
\* MultiWriters over the file and fn is called.
MirrorOpen ==
    /\ mirror.pc = "open"
    /\ \E failed \in BOOLEAN :
          mirror' = IF failed
                    THEN [mirror EXCEPT !.openErr = TRUE, !.result = "openErr",
                                        !.pc = "returned"]
                    ELSE [mirror EXCEPT !.open = TRUE, !.invoked = TRUE, !.pc = "fn"]
    /\ UNCHANGED <<network, call, trial, poll, verify, scn>>

\* fn writes a line to opt.Out or to opt.ErrOut.
FnWrite ==
    /\ mirror.pc = "fn"
    /\ Len(mirror.term) < MaxLines
    /\ \E stream \in {mirror.out, mirror.errOut} :
          mirror' = WriteMirrored(mirror, stream, "line")
    /\ UNCHANGED <<network, call, trial, poll, verify, scn>>

\* fn returns; without an OutFile its result is returned at once.
FnReturn ==
    /\ mirror.pc = "fn"
    /\ \E e \in {"nil", "fnErr"} :
          mirror' = IF mirror.outFile
                    THEN [mirror EXCEPT !.exitErr = e, !.pc = "report"]
                    ELSE [mirror EXCEPT !.exitErr = e, !.result = e, !.pc = "returned"]
    /\ UNCHANGED <<network, call, trial, poll, verify, scn>>

\* if exitErr != nil { fmt.Fprintf(f, "error: %s", exitErr) }
MirrorReport ==
    /\ mirror.pc = "report"
    /\ mirror' = [mirror EXCEPT
                     !.file = IF mirror.exitErr # "nil" THEN Append(@, "error: exitErr") ELSE @,
                     !.pc = "close"]
    /\ UNCHANGED <<network, call, trial, poll, verify, scn>>

\* f.Close(); a failure is written to opt.ErrOut (the write to the closed
\* file is lost).
MirrorClose ==
    /\ mirror.pc = "close"
    /\ \E failed \in BOOLEAN :
          LET shut == [mirror EXCEPT !.closed = TRUE, !.closeErr = failed, !.pc = "return"]
          IN mirror' = IF failed
                       THEN WriteMirrored(shut, mirror.errOut, "error: Unable to close output file")
                       ELSE shut
    /\ UNCHANGED <<network, call, trial, poll, verify, scn>>

\* return exitErr
MirrorReturn ==
    /\ mirror.pc = "return"
    /\ mirror' = [mirror EXCEPT !.result = ReturnOf(mirror.exitErr, mirror.closeErr),
                                !.pc = "returned"]
    /\ UNCHANGED <<network, call, trial, poll, verify, scn>>

NextMirror ==
    \/ MirrorCall
    \/ MirrorOpen
    \/ FnWrite
    \/ FnReturn
    \/ MirrorReport
    \/ MirrorClose
    \/ MirrorReturn

SpecMirror == InitTrial /\ [][NextMirror]_vars

\* C30: mirrorToFile returns exactly fn's result whenever fn was invoked, a
\* failed close of the file included; when the file cannot be opened the
\* open error is returned and fn is never invoked; an error returned by fn
\* is written to the file before the file is closed.
C30_MirrorReturnsFnResult ==
    /\ mirror.pc = "returned" /\ mirror.invoked => mirror.result = mirror.exitErr
    /\ mirror.openErr => /\ ~mirror.invoked
                         /\ mirror.pc = "returned" /\ mirror.result = "openErr"
    /\ mirror.closed /\ mirror.exitErr = "fnErr" =>
          \E i \in 1..Len(mirror.file) : mirror.file[i] = "error: exitErr"
    /\ mirror.exitErr # "none" => mirror.invoked

\* C30 witness: fn wrote to the file and returned an error, the close of the
\* file failed, and fn's error was returned.
C30_Witness ==
    /\ mirror.pc = "returned" /\ mirror.open /\ mirror.closeErr
    /\ mirror.exitErr = "fnErr" /\ mirror.result = "fnErr"
    /\ Len(mirror.file) > 1

====
